---------------------------- MODULE Spec2Model ----------------------------
(***************************************************************************)
(* Model of the incremental analytics recomputation of the market-health   *)
(* dashboard: "Data Collection/compute_analytics.py" (window resolution,   *)
(* indicator engine, group aggregation, breadth and breakout detection,    *)
(* delete-then-append commit) together with the part of                    *)
(* "Data Collection/data_pipeline.py" that feeds it (raw bars, the         *)
(* refreshed_tickers_log).                                                 *)
(*                                                                         *)
(* Dates are day numbers.  Decimal values rounded by DataFrame.round(4)    *)
(* are integers counting units of 1/10000; unrounded values are exact      *)
(* rationals [n, d].  The rolling-window lengths and the day offsets of    *)
(* the program (20/50/200 periods, 252 and 300 days, ...) are far beyond   *)
(* what can be enumerated, so the state machine runs with the scaled       *)
(* stand-ins defined below (W20 < W50 < W200; a span of BufferDays         *)
(* calendar days before a date holds, with that date, W200 bars of a       *)
(* ticker that trades every day, as 300 calendar days hold 200 bars);      *)
(* every operator takes them from those definitions only.                  *)
(***************************************************************************)
EXTENDS Integers, Sequences, FiniteSets, TLC

(***************************************************************************)
(* Bounds of the model.                                                    *)
(***************************************************************************)
InitDays == 6       \* days of ingestion before the first analytics run
MaxDate == 7        \* last calendar day the ingestion reaches
MaxRuns == 2        \* analytics runs that do not fail in one behaviour
MaxCrashes == 1     \* analytics runs that fail in one behaviour
MaxRefresh == 1     \* corporate-action refreshes in one behaviour
MaxMisses == 1      \* days on which the fetch of a stock fails or nothing trades

W20 == 1            \* stands for rolling(window=20)
W50 == 2            \* stands for rolling(window=50)
W200 == 3           \* stands for rolling(window=200)
RecalcDays == 1     \* stands for timedelta(days=252)
BufferDays == 2     \* stands for buffer_days = 300
VolWindow == 2      \* stands for the 50-period volume mean of the breakout rule
HighWindow == 1     \* stands for the 20-period rolling max of the breakout rule
GroupW200 == 2      \* stands for the 200-period mean of group_rs_value
YearDays == 4       \* stands for the days of a calendar year

\* The rolling windows of the program, used where a check runs the indicator engine
\* at full length.
Period20 == 20
Period50 == 50
Period200 == 200
VolMaPeriod == 50
RollingHighPeriod == 20

Benchmark == "^GSPC"
Stocks == {"A", "B"}
Tickers == Stocks \cup {Benchmark}
Dates == 1..MaxDate

(***************************************************************************)
(* Exact rationals and the rounding of DataFrame.round(4).                 *)
(***************************************************************************)
RECURSIVE Gcd(_, _)
Gcd(a, b) == IF b = 0 THEN a ELSE Gcd(b, a % b)

Abs(x) == IF x < 0 THEN -x ELSE x

Rat(n, d) == LET g == Gcd(Abs(n), d) IN [n |-> n \div g, d |-> d \div g]

\* sums are reduced to lowest terms where they are used, not at every step
RAdd(p, q) == [n |-> p.n * q.d + q.n * p.d, d |-> p.d * q.d]

\* p / q for q > 0
RDiv(p, q) == Rat(p.n * q.d, p.d * q.n)

RDivInt(p, k) == Rat(p.n, p.d * k)

RLess(p, q) == p.n * q.d < q.n * p.d

\* round(4): the nearest multiple of 1/10000, a tie going to the even one
Round4(p) ==
    LET s == p.n * 10000
        f == s \div p.d
        r == s % p.d
    IN IF 2 * r < p.d THEN f
       ELSE IF 2 * r > p.d THEN f + 1
       ELSE IF f % 2 = 0 THEN f ELSE f + 1

(***************************************************************************)
(* Sequences.                                                              *)
(***************************************************************************)
Min(S) == CHOOSE x \in S : \A y \in S : x <= y
Max(S) == CHOOSE x \in S : \A y \in S : x >= y

RECURSIVE SortedSeq(_)
SortedSeq(S) == IF S = {} THEN << >> ELSE << Min(S) >> \o SortedSeq(S \ {Min(S)})

RECURSIVE RSum(_, _, _)
RSum(f, lo, hi) ==
    IF lo > hi THEN [n |-> 0, d |-> 1]
    ELSE IF lo = hi THEN RAdd(f[lo], [n |-> 0, d |-> 1])
    ELSE LET mid == (lo + hi) \div 2
         IN RAdd(RSum(f, lo, mid), RSum(f, mid + 1, hi))

(***************************************************************************)
(* The raw store: daily_stock_data, one bar per (ticker, date).  The       *)
(* values of a bar are those the provider reports for the ticker, the      *)
(* date and the ticker's adjustment version (a corporate action rewrites   *)
(* the adjusted history of the ticker).                                    *)
(***************************************************************************)
ClosePx(t, d) ==
    IF t = Benchmark THEN 4 + (d % 2)
    ELSE IF t = "A" THEN 1 + ((2 * d) % 5)
    ELSE 1 + ((3 * d) % 4)

VolumeOf(t, d) ==
    IF t = Benchmark THEN 2
    ELSE IF t = "A" THEN (IF d % 2 = 0 THEN 4 ELSE 1)
    ELSE (IF d % 5 = 0 THEN 7 ELSE 2)

Bar(t, d, v) ==
    [date |-> d, high |-> ClosePx(t, d) + 1, low |-> ClosePx(t, d) - 1,
     close |-> ClosePx(t, d), adj_close |-> ClosePx(t, d) + v,
     volume |-> VolumeOf(t, d)]

\* The stocks table: ticker -> sector, industry, market_cap.
StockMeta(t) ==
    IF t = Benchmark THEN [sector |-> "Index", industry |-> "Market Index", market_cap |-> 0]
    ELSE IF t = "A" THEN [sector |-> "Tech", industry |-> "Unknown", market_cap |-> 3]
    ELSE [sector |-> "Tech", industry |-> "Banks", market_cap |-> 1]

(***************************************************************************)
(* calculate_indicators.  A panel maps each ticker to the sequence of its  *)
(* bars in frame order; the rolling windows run over that order.           *)
(***************************************************************************)
NaN == [n |-> 0, d |-> 0]
IsNaN(p) == p.d = 0
NaN4 == 0 - 1
Round4OrNaN(p) == IF IsNaN(p) THEN NaN4 ELSE Round4(p)

\* A value missing from a bar (NULL in the table, NaN in the frame)
Null == 0 - 1

\* Step 1: adjustment factor (1.0 when close is 0 or a value of the ratio is missing),
\* adjusted high and low, hlcc4; NaN when high, low or adj_close is missing
Hlcc4(b) ==
    LET factor == IF b.close = 0 \/ b.close = Null \/ b.adj_close = Null
                  THEN [n |-> 1, d |-> 1] ELSE [n |-> b.adj_close, d |-> b.close]
        adjHigh == [n |-> b.high * factor.n, d |-> factor.d]
        adjLow == [n |-> b.low * factor.n, d |-> factor.d]
        adjC == [n |-> 2 * b.adj_close, d |-> 1]
    IN IF Null \in {b.high, b.low, b.adj_close} THEN NaN
       ELSE RDivInt(RAdd(RAdd(adjHigh, adjLow), adjC), 4)

\* RollingMean without min_periods: the mean of the rows there are.
RollingMeanPartial(vals, i, w) ==
    IF i < w THEN RDivInt(RSum(vals, 1, i), i) ELSE RDivInt(RSum(vals, i - w + 1, i), w)

\* Step 2: x.rolling(window=w, min_periods=w).mean() at row i of a ticker's rows
RollingMean(vals, i, w) ==
    IF i < w \/ \E j \in (i - w + 1)..i : IsNaN(vals[j]) THEN NaN
    ELSE RDivInt(RSum(vals, i - w + 1, i), w)

HlSeries(s) == [k \in 1..Len(s) |-> Hlcc4(s[k])]

\* Step 3: the benchmark's hlcc4 of the same date (left merge on date)
SpxHlcc4(panel, d) ==
    LET s == panel[Benchmark]
    IN IF \E j \in 1..Len(s) : s[j].date = d
       THEN Hlcc4(s[CHOOSE j \in 1..Len(s) : s[j].date = d])
       ELSE NaN

\* RelStrength with the ratio upside down.
RelStrengthInverse(hl, spx) ==
    IF IsNaN(spx) \/ hl.n = 0 THEN NaN ELSE RDiv(spx, hl)

\* rs = hlcc4 / spx_hlcc4, infinite and undefined results replaced by NaN
\* RelStrength with 0 in place of a ratio that cannot be computed.
RelStrengthFilled(hl, spx) ==
    IF IsNaN(hl) \/ IsNaN(spx) \/ spx.n = 0 THEN [n |-> 0, d |-> 1] ELSE RDiv(hl, spx)

RelStrength(hl, spx) ==
    IF IsNaN(hl) \/ IsNaN(spx) \/ spx.n = 0 THEN NaN ELSE RDiv(hl, spx)

\* Step 4: np.select over the uptrend and downtrend conditions
TrendOf(adj, ma50, ma200) ==
    IF IsNaN(ma50) \/ IsNaN(ma200) THEN "Sideways"
    ELSE IF RLess(ma50, Rat(adj, 1)) /\ RLess(ma200, ma50) THEN "Uptrend"
    ELSE IF RLess(Rat(adj, 1), ma50) /\ RLess(ma50, ma200) THEN "Downtrend"
    ELSE "Sideways"

\* The frame row of ticker t at position i, before the final filters, for rolling
\* windows of w.short, w.mid and w.long rows
IndicatorRowW(panel, t, i, w) ==
    LET s == panel[t]
        hs == HlSeries(s)
        ma20 == RollingMean(hs, i, w.short)
        ma50 == RollingMean(hs, i, w.mid)
        ma200 == RollingMean(hs, i, w.long)
        rs == RelStrength(hs[i], SpxHlcc4(panel, s[i].date))
    IN [ticker |-> t, date |-> s[i].date, hlcc4 |-> hs[i],
        ma_20 |-> ma20, ma_50 |-> ma50, ma_200 |-> ma200, rs |-> rs,
        trend |-> TrendOf(s[i].adj_close, ma50, ma200)]

\* The windows the state machine runs with
ScaledWindows == [short |-> W20, mid |-> W50, long |-> W200]

IndicatorRow(panel, t, i) == IndicatorRowW(panel, t, i, ScaledWindows)

\* Step 6: round(4) of the numeric columns
RoundRow(r) ==
    [ticker |-> r.ticker, date |-> r.date, hlcc4 |-> Round4(r.hlcc4),
     ma_20 |-> Round4OrNaN(r.ma_20), ma_50 |-> Round4OrNaN(r.ma_50),
     ma_200 |-> Round4OrNaN(r.ma_200), rs |-> Round4(r.rs), trend |-> r.trend]

\* KeepRow without the filter on calc_start_date.
KeepRowAnyDate(r, calcStart) ==
    /\ ~IsNaN(r.rs)
    /\ ~IsNaN(r.ma_200)

\* dropna(subset=['rs']), dropna(subset=['ma_200']), date >= calc_start_date
KeepRow(r, calcStart) ==
    /\ ~IsNaN(r.rs)
    /\ ~IsNaN(r.ma_200)
    /\ r.date >= calcStart

CalculateIndicatorsW(panel, calcStart, w) ==
    LET frame == UNION { { IndicatorRowW(panel, t, i, w) : i \in 1..Len(panel[t]) } : t \in DOMAIN panel }
    IN { RoundRow(r) : r \in { x \in frame : KeepRow(x, calcStart) } }

\* Step 5, perf_ytd.  The rows of ticker t left by dropna(subset=['rs']), as
\* positions of its bars in frame order
ValidRows(panel, t) ==
    { i \in 1..Len(panel[t]) :
        ~IsNaN(RelStrength(Hlcc4(panel[t][i]), SpxHlcc4(panel, panel[t][i].date))) }

\* df['date'].dt.year
YearOf(d) == (d - 1) \div YearDays + 1

\* groupby(['ticker', 'year'])['adj_close'].transform('first') at row i
YtdStartPrice(panel, t, i) ==
    LET grp == { j \in ValidRows(panel, t) : YearOf(panel[t][j].date) = YearOf(panel[t][i].date) }
    IN panel[t][Min(grp)].adj_close

\* (adj_close / ytd_start_price - 1) * 100, rounded to 4 decimals
PerfYtd(adj, start) == Round4(Rat((adj - start) * 100, start))

\* The perf_ytd column of the rows calculate_indicators returns
PerfYtdColumn(panel, calcStart) ==
    { [ticker |-> t, date |-> panel[t][i].date,
       perf_ytd |-> PerfYtd(panel[t][i].adj_close, YtdStartPrice(panel, t, i))] :
      <<t, i>> \in { x \in Tickers \X (1..(2 * YearDays)) :
                      /\ x[2] \in ValidRows(panel, x[1])
                      /\ KeepRow(IndicatorRow(panel, x[1], x[2]), calcStart) } }

\* CalculateIndicators taking calc_start_date as not given.
CalculateIndicatorsFromStart(panel, calcStart) == CalculateIndicatorsW(panel, 0, ScaledWindows)

CalculateIndicators(panel, calcStart) == CalculateIndicatorsW(panel, calcStart, ScaledWindows)

(***************************************************************************)
(* calculate_group_analytics: market-cap weighted rs per (date, group),    *)
(* its rolling mean per group, rows without the long mean dropped.  Of the *)
(* output columns the model carries the key, group_rs_value and            *)
(* group_rs_sma_200.                                                       *)
(***************************************************************************)
GroupTypes == {"sector", "industry"}

GroupNameOf(t, gt) == IF gt = "sector" THEN StockMeta(t).sector ELSE StockMeta(t).industry

RECURSIVE SumOver(_, _)
SumOver(S, f) ==
    IF S = {} THEN 0
    ELSE LET x == CHOOSE y \in S : TRUE IN f[x] + SumOver(S \ {x}, f)

\* drop_duplicates(subset=['ticker', 'date']) of historical rows followed by new rows
MergeAnalytics(hist, new) ==
    LET Key(r) == <<r.ticker, r.date>>
        keys == { Key(r) : r \in hist \cup new }
        Pick(k) == IF \E r \in new : Key(r) = k
                   THEN CHOOSE r \in new : Key(r) = k
                   ELSE CHOOSE r \in hist : Key(r) = k
    IN { Pick(k) : k \in keys }

\* GroupRsValue dividing by the number of members instead of their market cap.
GroupRsValueByCount(rows, gt, g, d) ==
    LET members == { r \in rows : r.date = d /\ GroupNameOf(r.ticker, gt) = g }
        num == [r \in members |-> r.rs * StockMeta(r.ticker).market_cap]
    IN Rat(SumOver(members, num), 10000 * Cardinality(members))

\* (x['rs'] * x['market_cap']).sum() / x['market_cap'].sum() of one (date, group)
GroupRsValue(rows, gt, g, d) ==
    LET members == { r \in rows : r.date = d /\ GroupNameOf(r.ticker, gt) = g }
        num == [r \in members |-> r.rs * StockMeta(r.ticker).market_cap]
        cap == [r \in members |-> StockMeta(r.ticker).market_cap]
        den == SumOver(members, cap)
    IN IF den = 0 THEN NaN ELSE Rat(SumOver(members, num), 10000 * den)

\* rolling(window=w, min_periods=w).mean() over a series that may hold NaN
RollingMeanNaN(vals, i, w) ==
    IF i < w \/ \E k \in (i - w + 1)..i : IsNaN(vals[k]) THEN NaN
    ELSE RDivInt(RSum(vals, i - w + 1, i), w)

GroupRows(rows, gt, g) ==
    LET ds == SortedSeq({ r.date : r \in { x \in rows : GroupNameOf(x.ticker, gt) = g } })
        vals == [k \in 1..Len(ds) |-> GroupRsValue(rows, gt, g, ds[k])]
    IN { [analysis_date |-> ds[k], group_name |-> g, group_type |-> gt,
          group_rs_value |-> Round4(vals[k]),
          group_rs_sma_200 |-> Round4(RollingMeanNaN(vals, k, GroupW200))] :
          k \in { j \in 1..Len(ds) : ~IsNaN(RollingMeanNaN(vals, j, GroupW200)) } }

\* CalculateGroupAnalytics without the filter on 'Unknown'.
CalculateGroupAnalyticsAll(rows) ==
    UNION { GroupRows(rows, gt, g) :
            <<gt, g>> \in GroupTypes \X { GroupNameOf(t, y) : t \in Tickers, y \in GroupTypes } }

CalculateGroupAnalytics(rows) ==
    UNION { GroupRows(rows, gt, g) :
            <<gt, g>> \in { x \in GroupTypes \X { GroupNameOf(t, y) : t \in Tickers, y \in GroupTypes } :
                            x[2] # "Unknown" } }

(***************************************************************************)
(* calculate_market_breadth over the bars handed to it.                    *)
(***************************************************************************)
PanelDates(panel) == UNION { { panel[t][i].date : i \in 1..Len(panel[t]) } : t \in DOMAIN panel }

HasBar(panel, t, d) == \E i \in 1..Len(panel[t]) : panel[t][i].date = d

BarAt(panel, t, d) == panel[t][CHOOSE i \in 1..Len(panel[t]) : panel[t][i].date = d]

\* df_pivot.drop(columns=['^GSPC']).diff(): the change of ticker t at index date d
\* against the previous index date e (0: there is none)
PriceChange(panel, t, d, e) ==
    IF e = 0 \/ ~HasBar(panel, t, d) \/ ~HasBar(panel, t, e) THEN NaN
    ELSE [n |-> BarAt(panel, t, d).adj_close - BarAt(panel, t, e).adj_close, d |-> 1]

Advancers(panel, d, e) ==
    Cardinality({ t \in DOMAIN panel \ {Benchmark} :
                    ~IsNaN(PriceChange(panel, t, d, e)) /\ PriceChange(panel, t, d, e).n > 0 })

Decliners(panel, d, e) ==
    Cardinality({ t \in DOMAIN panel \ {Benchmark} :
                    ~IsNaN(PriceChange(panel, t, d, e)) /\ PriceChange(panel, t, d, e).n < 0 })

\* AdLine reset on every row: the day's net advance alone.
AdLinePerDay(adv, dec, k) == IF k = 0 THEN 0 ELSE adv[k] - dec[k]

\* (advancers - decliners).cumsum() up to row k
RECURSIVE AdLine(_, _, _)
AdLine(adv, dec, k) == IF k = 0 THEN 0 ELSE adv[k] - dec[k] + AdLine(adv, dec, k - 1)

CalculateMarketBreadth(panel) ==
    LET ds == SortedSeq(PanelDates(panel))
        Before(k) == IF k = 1 THEN 0 ELSE ds[k - 1]
        adv == [k \in 1..Len(ds) |-> Advancers(panel, ds[k], Before(k))]
        dec == [k \in 1..Len(ds) |-> Decliners(panel, ds[k], Before(k))]
    IN { [date |-> ds[k], advancers |-> adv[k], decliners |-> dec[k],
          ad_line |-> AdLine(adv, dec, k)] : k \in 1..Len(ds) }

(***************************************************************************)
(* calculate_breakouts_and_volume.  The frame is sorted by ticker and      *)
(* date; the rolling statistics are per ticker, the shift(1) of the        *)
(* rolling high is taken over the whole frame.                             *)
(***************************************************************************)
TickerOrder == << "A", "B", Benchmark >>

RECURSIVE SortedFrame(_, _)
SortedFrame(panel, k) ==
    IF k > Len(TickerOrder) THEN << >>
    ELSE LET t == TickerOrder[k]
             ds == SortedSeq({ panel[t][i].date : i \in 1..Len(panel[t]) })
         IN [i \in 1..Len(ds) |-> [ticker |-> t, pos |-> i, bar |-> BarAt(panel, t, ds[i])]]
            \o SortedFrame(panel, k + 1)

\* the frame rows of the ticker of row k, up to row k
OwnRows(frame, k) == { j \in 1..k : frame[j].ticker = frame[k].ticker }

\* rolling(window=50, min_periods=50).mean() of volume, as a rational or NaN, for a
\* window of w.vol rows
VolMaW(frame, k, w) ==
    IF frame[k].pos < w.vol THEN NaN
    ELSE LET vol == [j \in 1..Len(frame) |-> frame[j].bar.volume]
         IN Rat(SumOver({ j \in OwnRows(frame, k) : j > k - w.vol }, vol), w.vol)

\* rolling(window=20, min_periods=20).max() of close, NaN4 when undefined, for a
\* window of w.high rows
RollingHighW(frame, k, w) ==
    IF frame[k].pos < w.high THEN NaN4
    ELSE Max({ frame[j].bar.close : j \in { i \in OwnRows(frame, k) : i > k - w.high } })

\* IsNewHighW with a strict comparison.
IsNewHighStrict(frame, k, w) ==
    /\ k > 1
    /\ RollingHighW(frame, k - 1, w) # NaN4
    /\ frame[k].bar.close > RollingHighW(frame, k - 1, w)

\* close >= close_rolling_high_20.shift(1)
IsNewHighW(frame, k, w) ==
    /\ k > 1
    /\ RollingHighW(frame, k - 1, w) # NaN4
    /\ frame[k].bar.close >= RollingHighW(frame, k - 1, w)

\* volume > vol_ma_50 * 1.5
IsHighVolumeW(frame, k, w) ==
    /\ ~IsNaN(VolMaW(frame, k, w))
    /\ 2 * frame[k].bar.volume * VolMaW(frame, k, w).d > 3 * VolMaW(frame, k, w).n

IsAboveAvgVolW(frame, k, w) ==
    /\ ~IsNaN(VolMaW(frame, k, w))
    /\ frame[k].bar.volume * VolMaW(frame, k, w).d > VolMaW(frame, k, w).n

\* IsBreakoutW without the volume condition.
IsBreakoutNewHighOnly(frame, k, w) == IsNewHighW(frame, k, w)

IsBreakoutW(frame, k, w) == IsNewHighW(frame, k, w) /\ IsHighVolumeW(frame, k, w)

\* The frame with its is_breakout_stock and is_above_avg_vol columns
BreakoutFrameW(panel, w) ==
    LET frame == SortedFrame(panel, 1)
    IN { [date |-> frame[k].bar.date, ticker |-> frame[k].ticker,
          is_breakout_stock |-> IsBreakoutW(frame, k, w),
          is_above_avg_vol |-> IsAboveAvgVolW(frame, k, w)] : k \in 1..Len(frame) }

\* The windows the state machine runs with
ScaledVolumeWindows == [vol |-> VolWindow, high |-> HighWindow]

VolMa(frame, k) == VolMaW(frame, k, ScaledVolumeWindows)

RollingHigh(frame, k) == RollingHighW(frame, k, ScaledVolumeWindows)

IsNewHigh(frame, k) == IsNewHighW(frame, k, ScaledVolumeWindows)

IsHighVolume(frame, k) == IsHighVolumeW(frame, k, ScaledVolumeWindows)

IsAboveAvgVol(frame, k) == IsAboveAvgVolW(frame, k, ScaledVolumeWindows)

IsBreakout(frame, k) == IsBreakoutW(frame, k, ScaledVolumeWindows)

BreakoutFrame(panel) == BreakoutFrameW(panel, ScaledVolumeWindows)

\* breakout_stocks_df
BreakoutStocks(bf) ==
    { [date |-> r.date, ticker |-> r.ticker] : r \in { x \in bf : x.is_breakout_stock } }

\* daily_summary: high_volume_breakout_count and pct_above_avg_volume per date; the
\* percentage, rounded to 2 decimals, counts units of 1/100
BreakoutStats(bf) ==
    { [date |-> d,
       high_volume_breakout_count |->
           Cardinality({ x \in bf : x.date = d /\ x.is_breakout_stock }),
       pct_above_avg_volume |->
           Round4(Rat(Cardinality({ x \in bf : x.date = d /\ x.is_above_avg_vol }),
                      Cardinality({ x \in bf : x.date = d })))] :
      d \in { x.date : x \in bf } }

(***************************************************************************)
(* State.                                                                  *)
(***************************************************************************)
VARIABLES
    today,              \* the last calendar day the ingestion has seen
    traded,             \* the dates on which the provider has bars
    rawDates,           \* daily_stock_data: ticker -> dates of its stored bars
    rawVer,             \* ticker -> adjustment version of its stored bars
    refreshedLog,       \* refreshed_tickers_log (the DirtyTickerSet)
    misses,             \* ingestion days on which not every fetch succeeded
    refreshes,          \* corporate-action refreshes so far
    stockAnalytics,     \* daily_stock_analytics
    marketIndicators,   \* daily_market_indicators
    breakoutStocks,     \* daily_breakout_stocks
    groupAnalytics,     \* daily_group_analytics
    pc,                 \* position of the analytics run in main()
    runId,              \* number of the current (or last) analytics run
    crashes,            \* analytics runs that failed so far
    dirty,              \* tickers_to_fully_recalculate
    window,             \* (data_load_date, recalc_from_date) of the run
    panel,              \* raw_data_df
    computed,           \* the frames computed by the run, to be appended
    outcome,            \* how the last run ended
    pre,                \* history: derived store and log when the run started
    loadRaw,            \* history: the raw store the run loaded from
    prev,               \* history: the run before the current one
    quiet,              \* history: no ingestion step since the last run started
    sample,             \* function checks: the input handed to a function
    emitted             \* function checks: what the function returned for it

rawVars == << today, traded, rawDates, rawVer, refreshedLog, misses, refreshes >>
derivedVars == << stockAnalytics, marketIndicators, breakoutStocks, groupAnalytics >>
runVars == << pc, runId, crashes, dirty, window, panel, computed, outcome >>
histVars == << pre, loadRaw, prev, quiet >>
fnVars == << sample, emitted >>
vars == << rawVars, derivedVars, runVars, histVars, fnVars >>

\* A stored row: the row and the run that appended it (rows have no other identity;
\* the derived tables carry no key constraint).
Stored(rows, id) == { [row |-> r, run |-> id] : r \in rows }
Rows(table) == { x.row : x \in table }

\* The function-check variables while no function check is under way.
NoSample == [ready |-> FALSE, out |-> {}]

NoWindow == [ok |-> FALSE, load |-> 0, recalc |-> 0]
EmptyPanel == [t \in Tickers |-> << >>]
NoFrames == [stock |-> {}, market |-> {}, breakout |-> {}, group |-> {}]
DerivedNow ==
    [stock |-> stockAnalytics, market |-> marketIndicators,
     breakout |-> breakoutStocks, group |-> groupAnalytics, log |-> refreshedLog]

\* One day's incremental fetch: the tickers in S are fetched and stored, the fetch of
\* the others fails or returns nothing (S empty: nothing traded).  A ticker without
\* stored bars is fetched as a new ticker, with its full history.
DayStep(tr, rd, S, d) ==
    LET tr2 == IF S = {} THEN tr ELSE tr \cup {d}
    IN [traded |-> tr2,
        dates |-> [t \in Tickers |->
                     IF t \notin S THEN rd[t]
                     ELSE IF rd[t] = {} THEN tr2
                     ELSE rd[t] \cup {d}]]

\* The outcomes of a day's fetches the model draws from: all stored, the fetch of
\* stock A failed, nothing traded.
Outcomes == { Tickers, Tickers \ {"A"}, {} }

RECURSIVE History(_, _)
History(h, k) ==
    IF k = 0 THEN [traded |-> {}, dates |-> [t \in Tickers |-> {}]]
    ELSE LET p == History(h, k - 1) IN DayStep(p.traded, p.dates, h[k], k)

MissesOf(h) == Cardinality({ k \in DOMAIN h : h[k] # Tickers })

\* The analytics have never run; the ingestion has run for InitDays days, or it has
\* not stored a bar yet (a new database).
Init ==
    /\ today = InitDays
    /\ \/ \E h \in [1..InitDays -> Outcomes] :
             /\ MissesOf(h) <= MaxMisses
             /\ traded = History(h, InitDays).traded
             /\ rawDates = History(h, InitDays).dates
             /\ misses = MissesOf(h)
       \/ /\ traded = {}
          /\ rawDates = [t \in Tickers |-> {}]
          /\ misses = 0
    /\ rawVer = [t \in Tickers |-> 0]
    /\ refreshedLog = {}
    /\ refreshes = 0
    /\ stockAnalytics = {}
    /\ marketIndicators = {}
    /\ breakoutStocks = {}
    /\ groupAnalytics = {}
    /\ pc = "idle"
    /\ runId = 0
    /\ crashes = 0
    /\ dirty = {}
    /\ window = NoWindow
    /\ panel = EmptyPanel
    /\ computed = NoFrames
    /\ outcome = [kind |-> "none", at |-> "idle"]
    /\ pre = DerivedNow
    /\ loadRaw = [dates |-> rawDates, ver |-> rawVer]
    /\ prev = [outcome |-> [kind |-> "none", at |-> "idle"], window |-> NoWindow,
               dirty |-> {}, quiet |-> FALSE]
    /\ quiet = FALSE
    /\ sample = NoSample
    /\ emitted = NoSample

(***************************************************************************)
(* Ingestion (data_pipeline.py, fetch_historical_data).  After its opening *)
(* reads a run no longer reads the raw store, and after its deletion       *)
(* transaction it no longer touches the log: a fetch commutes with every   *)
(* later step of a run in progress and is taken between runs, the logging  *)
(* of a corporate action is also taken between a run's reads and its       *)
(* deletion transaction.                                                   *)
(***************************************************************************)
IngestionMayStep == pc = "idle"

IngestDay(S) ==
    /\ IngestionMayStep
    /\ today < MaxDate
    /\ S # Tickers => misses < MaxMisses
    /\ today' = today + 1
    /\ traded' = DayStep(traded, rawDates, S, today + 1).traded
    /\ rawDates' = DayStep(traded, rawDates, S, today + 1).dates
    /\ misses' = IF S = Tickers THEN misses ELSE misses + 1
    /\ quiet' = FALSE
    /\ UNCHANGED << rawVer, refreshedLog, refreshes, derivedVars, runVars, pre, loadRaw, prev,
                    fnVars >>

\* The tickers the model lets a corporate action hit.
RefreshCandidates == {"A"}

\* A corporate action of ticker t: one transaction logs t for a full analytics
\* recalculation and deletes its raw bars; the full download that follows stores the
\* rewritten history (refetched) or fails and leaves the ticker without bars.
RefreshTicker(t, refetched) ==
    /\ pc \in {"idle", "loaded"}
    /\ refreshes < MaxRefresh
    /\ rawDates[t] # {}
    /\ refreshedLog' = refreshedLog \cup {t}
    /\ rawDates' = [rawDates EXCEPT ![t] = IF refetched THEN traded ELSE {}]
    /\ rawVer' = [rawVer EXCEPT ![t] = 1 - rawVer[t]]
    /\ refreshes' = refreshes + 1
    /\ quiet' = FALSE
    /\ UNCHANGED << today, traded, misses, derivedVars, runVars, pre, loadRaw, prev,
                    fnVars >>

(***************************************************************************)
(* The analytics run (compute_analytics.py, main).                         *)
(***************************************************************************)
AllRawDates(rd) == UNION { rd[t] : t \in Tickers }

\* GetCalculationDateRange taking, without analytics, the latest raw date.
GetCalculationDateRangeLatest(analytics, rd) ==
    IF analytics # {}
    THEN LET last == Max({ x.row.date : x \in analytics })
             recalc == last - RecalcDays
         IN [ok |-> TRUE, load |-> recalc - BufferDays, recalc |-> recalc]
    ELSE IF AllRawDates(rd) # {}
    THEN [ok |-> TRUE, load |-> Max(AllRawDates(rd)), recalc |-> Max(AllRawDates(rd))]
    ELSE NoWindow

\* GetCalculationDateRange returning a window although no raw date exists.
GetCalculationDateRangeUnchecked(analytics, rd) ==
    IF analytics # {}
    THEN LET last == Max({ x.row.date : x \in analytics })
             recalc == last - RecalcDays
         IN [ok |-> TRUE, load |-> recalc - BufferDays, recalc |-> recalc]
    ELSE IF AllRawDates(rd) # {}
    THEN [ok |-> TRUE, load |-> Min(AllRawDates(rd)), recalc |-> Min(AllRawDates(rd))]
    ELSE [ok |-> TRUE, load |-> 0, recalc |-> 0]

\* get_calculation_date_range
GetCalculationDateRange(analytics, rd) ==
    IF analytics # {}
    THEN LET last == Max({ x.row.date : x \in analytics })
             recalc == last - RecalcDays
         IN [ok |-> TRUE, load |-> recalc - BufferDays, recalc |-> recalc]
    ELSE IF AllRawDates(rd) # {}
    THEN [ok |-> TRUE, load |-> Min(AllRawDates(rd)), recalc |-> Min(AllRawDates(rd))]
    ELSE NoWindow

\* The rows a SELECT returns for one ticker, in stored order: the ingestion stores a
\* ticker's bars in date order and never stores a bar older than the stored ones.
BarsOf(t, ds, v) == LET sq == SortedSeq(ds) IN [i \in 1..Len(sq) |-> Bar(t, sq[i], v)]

\* spx_query, other_stocks_query and their concatenation
LoadPanel(rd, rv, full, loadDate) ==
    [t \in Tickers |->
        IF t = Benchmark \/ t \in full THEN BarsOf(t, rd[t], rv[t])
        ELSE BarsOf(t, { d \in rd[t] : d >= loadDate }, rv[t])]

\* raw_data_df[raw_data_df['date'] >= recalc_from_date]
MarketPanel(pn, recalc) ==
    [t \in DOMAIN pn |-> SelectSeq(pn[t], LAMBDA b : b.date >= recalc)]

\* The reads that open the run: the log, the window, the raw slice.
StartRun ==
    /\ pc = "idle"
    /\ runId - crashes < MaxRuns
    /\ runId' = runId + 1
    /\ dirty' = refreshedLog
    /\ window' = GetCalculationDateRange(stockAnalytics, rawDates)
    /\ IF window'.ok
       THEN /\ pc' = "loaded"
            /\ panel' = LoadPanel(rawDates, rawVer, refreshedLog, window'.load)
            /\ outcome' = [kind |-> "running", at |-> "idle"]
       ELSE /\ pc' = "idle"
            /\ panel' = EmptyPanel
            /\ outcome' = [kind |-> "nodata", at |-> "idle"]
    /\ computed' = NoFrames
    /\ pre' = DerivedNow
    /\ loadRaw' = [dates |-> rawDates, ver |-> rawVer]
    /\ prev' = [outcome |-> outcome, window |-> window, dirty |-> dirty, quiet |-> quiet]
    /\ quiet' = TRUE
    /\ UNCHANGED << rawVars, derivedVars, crashes,
                    fnVars >>

\* DeleteStockRows with the date comparison off by one (date > :start_date).
DeleteStockRowsAfter(table, full, recalc) ==
    { x \in table : x.row.ticker \notin full /\ x.row.date <= recalc }

\* DELETE ... WHERE ticker = ANY(:tickers), then DELETE ... WHERE date >= :start_date
DeleteStockRows(table, full, recalc) ==
    { x \in table : x.row.ticker \notin full /\ x.row.date < recalc }

\* DeleteBreakoutRows without the DELETE ... WHERE ticker = ANY(:tickers).
DeleteBreakoutRowsByDate(table, full, recalc) ==
    { x \in table : x.row.date < recalc }

DeleteBreakoutRows(table, full, recalc) ==
    { x \in table : x.row.ticker \notin full /\ x.row.date < recalc }

\* DeleteMarketRows deleting from the day before :start_date.
DeleteMarketRowsEarly(table, recalc) == { x \in table : x.row.date < recalc - 1 }

DeleteMarketRows(table, recalc) == { x \in table : x.row.date < recalc }

\* The deletion transaction, which also truncates the group table and the log.
DeleteTx ==
    /\ pc = "loaded"
    /\ stockAnalytics' = DeleteStockRows(stockAnalytics, dirty, window.recalc)
    /\ breakoutStocks' = DeleteBreakoutRows(breakoutStocks, dirty, window.recalc)
    /\ marketIndicators' = DeleteMarketRows(marketIndicators, window.recalc)
    /\ groupAnalytics' = {}
    /\ refreshedLog' = {}
    /\ pc' = "deleted"
    /\ UNCHANGED << today, traded, rawDates, rawVer, misses, refreshes,
                    runId, crashes, dirty, window, panel, computed, outcome, histVars,
                    fnVars >>

\* market_breadth_df joined with breakout_stats_df on date
MarketIndicatorRows(breadth, stats) ==
    { [date |-> b.date, advancers |-> b.advancers, decliners |-> b.decliners,
       ad_line |-> b.ad_line,
       high_volume_breakout_count |->
           (CHOOSE x \in stats : x.date = b.date).high_volume_breakout_count,
       pct_above_avg_volume |->
           (CHOOSE x \in stats : x.date = b.date).pct_above_avg_volume] :
      b \in breadth }

\* ComputeFrames aggregating the groups from the new rows only.
ComputeFramesNewOnly(pn, recalc, historical) ==
    LET new == CalculateIndicators(pn, recalc)
        mp == MarketPanel(pn, recalc)
        bf == BreakoutFrame(mp)
    IN [stock |-> new,
        group |-> CalculateGroupAnalytics(new),
        breakout |-> BreakoutStocks(bf),
        market |-> MarketIndicatorRows(CalculateMarketBreadth(mp), BreakoutStats(bf))]

\* The computations between the deletion and the appends.
ComputeFrames(pn, recalc, historical) ==
    LET new == CalculateIndicators(pn, recalc)
        mp == MarketPanel(pn, recalc)
        bf == BreakoutFrame(mp)
    IN [stock |-> new,
        group |-> CalculateGroupAnalytics(MergeAnalytics(historical, new)),
        breakout |-> BreakoutStocks(bf),
        market |-> MarketIndicatorRows(CalculateMarketBreadth(mp), BreakoutStats(bf))]

Compute ==
    /\ pc = "deleted"
    /\ computed' = ComputeFrames(panel, window.recalc, Rows(stockAnalytics))
    /\ pc' = "computed"
    /\ UNCHANGED << rawVars, derivedVars, runId, crashes, dirty, window, panel, outcome, histVars,
                    fnVars >>

AppendStock ==
    /\ pc = "computed"
    /\ stockAnalytics' = stockAnalytics \cup Stored(computed.stock, runId)
    /\ pc' = "stock_appended"
    /\ UNCHANGED << rawVars, marketIndicators, breakoutStocks, groupAnalytics,
                    runId, crashes, dirty, window, panel, computed, outcome, histVars,
                    fnVars >>

AppendMarket ==
    /\ pc = "stock_appended"
    /\ marketIndicators' = marketIndicators \cup Stored(computed.market, runId)
    /\ pc' = "market_appended"
    /\ UNCHANGED << rawVars, stockAnalytics, breakoutStocks, groupAnalytics,
                    runId, crashes, dirty, window, panel, computed, outcome, histVars,
                    fnVars >>

AppendBreakout ==
    /\ pc = "market_appended"
    /\ breakoutStocks' = breakoutStocks \cup Stored(computed.breakout, runId)
    /\ pc' = "breakout_appended"
    /\ UNCHANGED << rawVars, stockAnalytics, marketIndicators, groupAnalytics,
                    runId, crashes, dirty, window, panel, computed, outcome, histVars,
                    fnVars >>

\* The last append; the run ends.
AppendGroup ==
    /\ pc = "breakout_appended"
    /\ groupAnalytics' = groupAnalytics \cup Stored(computed.group, runId)
    /\ pc' = "idle"
    /\ outcome' = [kind |-> "done", at |-> "idle"]
    /\ panel' = EmptyPanel
    /\ computed' = NoFrames
    /\ UNCHANGED << rawVars, stockAnalytics, marketIndicators, breakoutStocks,
                    runId, crashes, dirty, window, histVars,
                    fnVars >>

\* The run fails (an exception, a lost connection, a kill) at its current position;
\* a failure inside the deletion transaction rolls the transaction back.
Crash ==
    /\ pc # "idle"
    /\ crashes < MaxCrashes
    /\ crashes' = crashes + 1
    /\ pc' = "idle"
    /\ outcome' = [kind |-> "crashed", at |-> pc]
    /\ panel' = EmptyPanel
    /\ computed' = NoFrames
    /\ UNCHANGED << rawVars, derivedVars, runId, dirty, window, histVars,
                    fnVars >>

Next ==
    \/ \E S \in Outcomes : IngestDay(S)
    \/ \E t \in RefreshCandidates, refetched \in BOOLEAN : RefreshTicker(t, refetched)
    \/ StartRun
    \/ DeleteTx
    \/ Compute
    \/ AppendStock
    \/ AppendMarket
    \/ AppendBreakout
    \/ AppendGroup
    \/ Crash

Spec == Init /\ [][Next]_vars

(***************************************************************************)
(* Function checks.  A function of the program is applied to inputs drawn  *)
(* from a bounded set, with the store of a new database and no run under   *)
(* way.                                                                    *)
(***************************************************************************)
StoreAtRest ==
    /\ today = InitDays
    /\ traded = {}
    /\ rawDates = [t \in Tickers |-> {}]
    /\ misses = 0
    /\ rawVer = [t \in Tickers |-> 0]
    /\ refreshedLog = {}
    /\ refreshes = 0
    /\ stockAnalytics = {}
    /\ marketIndicators = {}
    /\ breakoutStocks = {}
    /\ groupAnalytics = {}
    /\ pc = "idle"
    /\ runId = 0
    /\ crashes = 0
    /\ dirty = {}
    /\ window = NoWindow
    /\ panel = EmptyPanel
    /\ computed = NoFrames
    /\ outcome = [kind |-> "none", at |-> "idle"]
    /\ pre = DerivedNow
    /\ loadRaw = [dates |-> rawDates, ver |-> rawVer]
    /\ prev = [outcome |-> [kind |-> "none", at |-> "idle"], window |-> NoWindow,
               dirty |-> {}, quiet |-> FALSE]
    /\ quiet = FALSE

Returned(v) == [ready |-> TRUE, out |-> v]

\* calculate_indicators over panels of W200 bars of stock A beside a flat benchmark.
\* A bar shape is << high, low, close, adj_close >>.
BarShapes ==
    { << 9, 8, 9, 2 >>, << 7, 6, 7, 1 >>, << 10, 9, 10, 3 >>,
      << 4, 4, 4, 4 >>, << 6, 5, 6, 6 >>, << 3, 2, 2, 3 >> }

ShapedBar(d, sh) ==
    [date |-> d, high |-> sh[1], low |-> sh[2], close |-> sh[3], adj_close |-> sh[4],
     volume |-> 2]

EnginePanels ==
    { [t \in Tickers |->
         IF t = Benchmark THEN [i \in 1..W200 |-> ShapedBar(i, << 5, 5, 5, 5 >>)]
         ELSE IF t = "A" THEN [i \in 1..W200 |-> ShapedBar(i, f[i])]
         ELSE << >>] : f \in [1..W200 -> BarShapes] }

EngineInit == StoreAtRest /\ sample \in EnginePanels /\ emitted = NoSample

EmitIndicators ==
    /\ ~emitted.ready
    /\ emitted' = Returned(CalculateIndicators(sample, 0))
    /\ UNCHANGED << rawVars, derivedVars, runVars, histVars, sample >>

EngineNext == EmitIndicators

EngineSpec == EngineInit /\ [][EngineNext]_vars

\* calculate_indicators with the program's windows over Period200 bars of one ticker,
\* high = low = close = adj_close flat at a level and the last bar at another price,
\* beside a benchmark flat at the level.
ProgramWindows == [short |-> Period20, mid |-> Period50, long |-> Period200]

FlatLevels == {30, 100, 125, 200}
LastCloses == 100..112

FlatBar(d, px) ==
    [date |-> d, high |-> px, low |-> px, close |-> px, adj_close |-> px, volume |-> 2]

FlatThenJump(level, last) ==
    [t \in {"ABC", Benchmark} |->
        [i \in 1..Period200 |->
            FlatBar(i, IF t = "ABC" /\ i = Period200 THEN last ELSE level)]]

ExampleInit ==
    /\ StoreAtRest
    /\ sample \in [level : FlatLevels, last : LastCloses]
    /\ emitted = NoSample

EmitExample ==
    /\ ~emitted.ready
    /\ emitted' = Returned(CalculateIndicatorsW(FlatThenJump(sample.level, sample.last),
                                                0, ProgramWindows))
    /\ UNCHANGED << rawVars, derivedVars, runVars, histVars, sample >>

ExampleNext == EmitExample

ExampleSpec == ExampleInit /\ [][ExampleNext]_vars

\* calculate_breakouts_and_volume with the program's windows: ticker A trades flat on
\* VolMaPeriod - 1 dates and then on TailBars dates with drawn closes and volumes, B
\* has a single bar, the benchmark is flat.
VolumeWindows == [vol |-> VolMaPeriod, high |-> RollingHighPeriod]

TailBars == 3

TailShapes == {4, 5, 6} \X {2, 3, 4}

QuietBar(d) == [date |-> d, high |-> 5, low |-> 5, close |-> 5, adj_close |-> 5, volume |-> 2]

TailBar(d, sh) ==
    [date |-> d, high |-> sh[1], low |-> sh[1], close |-> sh[1], adj_close |-> sh[1],
     volume |-> sh[2]]

TailPanels ==
    { [t \in Tickers |->
         IF t = "A"
         THEN [i \in 1..(VolMaPeriod - 1 + TailBars) |->
                  IF i < VolMaPeriod THEN QuietBar(i) ELSE TailBar(i, f[i - VolMaPeriod + 1])]
         ELSE IF t = Benchmark
         THEN [i \in 1..(VolMaPeriod - 1 + TailBars) |-> QuietBar(i)]
         ELSE << TailBar(VolMaPeriod - 1 + TailBars, << 6, 4 >>) >>] :
      f \in [1..TailBars -> TailShapes] }

BreakoutInit ==
    /\ StoreAtRest
    /\ sample \in TailPanels
    /\ emitted = NoSample

EmitBreakouts ==
    /\ ~emitted.ready
    /\ emitted' = Returned(BreakoutStocks(BreakoutFrameW(sample, VolumeWindows)))
    /\ UNCHANGED << rawVars, derivedVars, runVars, histVars, sample >>

BreakoutNext == EmitBreakouts

BreakoutSpec == BreakoutInit /\ [][BreakoutNext]_vars

\* calculate_indicators and calculate_breakouts_and_volume over two panels that hold
\* the same bars of ticker B and of the benchmark and differ in the bars of ticker A,
\* which the frame sorts immediately before B.
NeighbourKinds == {"none", "one", "low", "high"}

NeighbourBars(kind) ==
    IF kind = "none" THEN << >>
    ELSE IF kind = "one" THEN << TailBar(VolMaPeriod + 1, << 9, 9 >>) >>
    ELSE [i \in 1..(VolMaPeriod + 1) |->
             TailBar(i, IF kind = "low" THEN << 1, 1 >> ELSE << 9, 9 >>)]

PairShapes == {4, 5, 6} \X {2, 4}

PairPanel(f, kind) ==
    [t \in Tickers |->
        IF t = "A" THEN NeighbourBars(kind)
        ELSE IF t = Benchmark THEN [i \in 1..(VolMaPeriod + 1) |-> QuietBar(i)]
        ELSE [i \in 1..(VolMaPeriod + 1) |->
                 IF i < VolMaPeriod THEN QuietBar(i) ELSE TailBar(i, f[i - VolMaPeriod + 1])]]

\* What the two detectors return for ticker t
OutputFor(pn, t) ==
    [stock |-> { r \in CalculateIndicators(pn, 0) : r.ticker = t },
     breakout |-> { r \in BreakoutStocks(BreakoutFrameW(pn, VolumeWindows)) : r.ticker = t }]

IsolationInit ==
    /\ StoreAtRest
    /\ sample \in [tail : [1..2 -> PairShapes], one : NeighbourKinds, two : NeighbourKinds]
    /\ emitted = NoSample

EmitPair ==
    /\ ~emitted.ready
    /\ emitted' = Returned([one |-> OutputFor(PairPanel(sample.tail, sample.one), "B"),
                            two |-> OutputFor(PairPanel(sample.tail, sample.two), "B")])
    /\ UNCHANGED << rawVars, derivedVars, runVars, histVars, sample >>

IsolationNext == EmitPair

IsolationSpec == IsolationInit /\ [][IsolationNext]_vars

\* calculate_indicators over panels in which the benchmark lacks a bar or has a bar of
\* zero prices on some dates and ticker A has bars without adj_close on some dates.
GapDays == 5

BenchmarkKinds == {"bar", "absent", "zero"}

OwnKinds == {"bar", "novalue"}

GapBar(d, kind) ==
    IF kind = "zero" THEN [date |-> d, high |-> 0, low |-> 0, close |-> 0, adj_close |-> 0, volume |-> 2]
    ELSE IF kind = "novalue"
    THEN [date |-> d, high |-> 7, low |-> 5, close |-> 6, adj_close |-> Null, volume |-> 2]
    ELSE [date |-> d, high |-> 7, low |-> 5, close |-> 6, adj_close |-> 3 + d, volume |-> 2]

GapPanel(own, bench) ==
    [t \in Tickers |->
        IF t = "A" THEN [i \in 1..GapDays |-> GapBar(i, own[i])]
        ELSE IF t = Benchmark
        THEN LET ds == SortedSeq({ d \in 1..GapDays : bench[d] # "absent" })
             IN [i \in 1..Len(ds) |-> GapBar(ds[i], bench[ds[i]])]
        ELSE << >>]

GapInit ==
    /\ StoreAtRest
    /\ sample \in { GapPanel(own, bench) :
                      own \in [1..GapDays -> OwnKinds], bench \in [1..GapDays -> BenchmarkKinds] }
    /\ emitted = NoSample

EmitGapped ==
    /\ ~emitted.ready
    /\ emitted' = Returned(CalculateIndicators(sample, 0))
    /\ UNCHANGED << rawVars, derivedVars, runVars, histVars, sample >>

GapNext == EmitGapped

GapSpec == GapInit /\ [][GapNext]_vars

\* The window resolver, the load and calculate_indicators over a raw store of two
\* calendar years in which A trades every day and the benchmark lacks some bars; the
\* derived store holds analytics up to a drawn date, or none.
YearsStore(gaps) ==
    [t \in Tickers |->
        IF t = "A" THEN 1..(2 * YearDays)
        ELSE IF t = Benchmark THEN (1..(2 * YearDays)) \ gaps
        ELSE {}]

NoVersions == [t \in Tickers |-> 0]

AnalyticsUpTo(last) ==
    IF last = 0 THEN {}
    ELSE { [row |-> [ticker |-> "A", date |-> last], run |-> 0] }

YearsInit ==
    /\ StoreAtRest
    /\ sample \in [last : 0..(2 * YearDays), gaps : SUBSET (1..(2 * YearDays))]
    /\ emitted = NoSample

EmitYtd ==
    /\ ~emitted.ready
    /\ LET rd == YearsStore(sample.gaps)
           w == GetCalculationDateRange(AnalyticsUpTo(sample.last), rd)
       IN emitted' = Returned(IF w.ok
                              THEN PerfYtdColumn(LoadPanel(rd, NoVersions, {}, w.load), w.recalc)
                              ELSE {})
    /\ UNCHANGED << rawVars, derivedVars, runVars, histVars, sample >>

YearsNext == EmitYtd

YearsSpec == YearsInit /\ [][YearsNext]_vars

\* calculate_indicators over the same bars of A and of the benchmark, once in date
\* order and once in a drawn row order.
ShuffleDays == 4

Orders == { f \in [1..ShuffleDays -> 1..ShuffleDays] : \A i, j \in 1..ShuffleDays : f[i] = f[j] => i = j }

OrderedPanel(fa, fb) ==
    [t \in Tickers |->
        IF t = "A" THEN [i \in 1..ShuffleDays |-> Bar("A", fa[i], 0)]
        ELSE IF t = Benchmark THEN [i \in 1..ShuffleDays |-> Bar(Benchmark, fb[i], 0)]
        ELSE << >>]

DateOrder == [i \in 1..ShuffleDays |-> i]

ShuffleInit ==
    /\ StoreAtRest
    /\ sample \in [a : Orders, spx : Orders]
    /\ emitted = NoSample

EmitShuffled ==
    /\ ~emitted.ready
    /\ emitted' = Returned([sorted |-> CalculateIndicators(OrderedPanel(DateOrder, DateOrder), 0),
                            given |-> CalculateIndicators(OrderedPanel(sample.a, sample.spx), 0)])
    /\ UNCHANGED << rawVars, derivedVars, runVars, histVars, sample >>

ShuffleNext == EmitShuffled

ShuffleSpec == ShuffleInit /\ [][ShuffleNext]_vars

\* The macro columns of the market-indicator rows: macro_data read from
\* recalc_from_date on, pivoted by date, merged onto the market dates.
MacroDays == 4

MacroSeries == {"DGS10", "VIXCLS"}

\* The value the provider reports for a series on a date
MacroValue(sid, d) == (IF sid = "DGS10" THEN 100 ELSE 200) + d

\* macro_df: SELECT ... FROM macro_data WHERE date >= :start_date
MacroRead(obs, recalc) == [sid \in MacroSeries |-> { d \in obs[sid] : d >= recalc }]

\* merge_asof(left=market, right=macro_pivot, direction='forward') at market date d:
\* the first pivot row dated d or later, a series without a value in that row NaN
MacroColumns(read, d) ==
    LET pivotDates == UNION { read[sid] : sid \in MacroSeries }
        later == { e \in pivotDates : e >= d }
    IN [sid \in MacroSeries |->
           IF later = {} \/ Min(later) \notin read[sid] THEN Null
           ELSE MacroValue(sid, Min(later))]

MarketMacroRows(obs, recalc) ==
    { [date |-> d, macro |-> MacroColumns(MacroRead(obs, recalc), d)] :
      d \in { e \in 1..MacroDays : e >= recalc } }

MacroInit ==
    /\ StoreAtRest
    /\ sample \in [obs : [MacroSeries -> SUBSET (1..MacroDays)], recalc : 1..MacroDays]
    /\ emitted = NoSample

EmitMacro ==
    /\ ~emitted.ready
    /\ emitted' = Returned(MarketMacroRows(sample.obs, sample.recalc))
    /\ UNCHANGED << rawVars, derivedVars, runVars, histVars, sample >>

MacroNext == EmitMacro

MacroSpec == MacroInit /\ [][MacroNext]_vars

(***************************************************************************)
(* Properties.  The history variables pre, loadRaw and prev hold what a    *)
(* run saw when it started, so that a state after the run can be compared  *)
(* with the state before it.                                               *)
(***************************************************************************)
Crashed == outcome.kind = "crashed"
Done == outcome.kind = "done"

\* The keys of the rows of a table.
StockKeys(table) == { << x.row.ticker, x.row.date >> : x \in table }

\* C1 (commit atomicity): after a run that failed, the four derived tables hold
\* exactly the rows they held when the run started and no ticker logged before the
\* run has left the log: the run's deletions and appends take effect all or not at
\* all.
C1_CommitAtomicity ==
    Crashed =>
        /\ stockAnalytics = pre.stock
        /\ marketIndicators = pre.market
        /\ breakoutStocks = pre.breakout
        /\ groupAnalytics = pre.group
        /\ pre.log \subseteq refreshedLog

\* C2 (idempotence): a run that completes right after a completed run, with no
\* ingestion step since that earlier run started, leaves the four derived tables with
\* the rows they had before it.
C2_Idempotence ==
    (Done /\ prev.outcome.kind = "done" /\ prev.quiet /\ quiet) =>
        /\ Rows(stockAnalytics) = Rows(pre.stock)
        /\ Rows(marketIndicators) = Rows(pre.market)
        /\ Rows(breakoutStocks) = Rows(pre.breakout)
        /\ Rows(groupAnalytics) = Rows(pre.group)

\* The run before the current one failed in the gap between its committed deletion
\* and its first append.
GapCrash == prev.outcome.kind = "crashed" /\ prev.outcome.at \in {"deleted", "computed"}

NoDuplicateStockKeys ==
    \A x, y \in stockAnalytics :
        (x.row.ticker = y.row.ticker /\ x.row.date = y.row.date) => x = y

\* C3 (crash-gap recovery): when a run failed after its deletion committed and before
\* any append, the next run's window reaches back to every raw date at or after the
\* failed run's recalc_from_date, and the stock table never holds a (ticker, date)
\* key twice.
C3_CrashGapRecovery ==
    (GapCrash /\ window.ok) =>
        /\ \A d \in AllRawDates(loadRaw.dates) :
               d >= prev.window.recalc => (d >= window.recalc /\ d >= window.load)
        /\ NoDuplicateStockKeys

\* A warm run failed in the gap and the next run completed and appended rows in the
\* failed run's window.
C3_Witness ==
    /\ GapCrash
    /\ Done
    /\ prev.window.load < prev.window.recalc
    /\ \E x \in stockAnalytics : x.run = runId /\ x.row.date >= prev.window.recalc

\* C4 (no duplicates): in every state, also across runs and failures, no key occurs
\* twice in a derived table.
C4_NoDuplicates ==
    /\ NoDuplicateStockKeys
    /\ \A x, y \in breakoutStocks :
           (x.row.ticker = y.row.ticker /\ x.row.date = y.row.date) => x = y
    /\ \A x, y \in marketIndicators : x.row.date = y.row.date => x = y
    /\ \A x, y \in groupAnalytics :
           (/\ x.row.analysis_date = y.row.analysis_date
            /\ x.row.group_name = y.row.group_name
            /\ x.row.group_type = y.row.group_type) => x = y

\* A completed warm run replaced rows it found in its window and kept older rows of
\* an earlier run, in the stock table and in the market table.
C4_Witness ==
    /\ Done
    /\ \E x \in pre.stock, y \in stockAnalytics :
           /\ x.row.date >= window.recalc
           /\ y.run = runId
           /\ y.row.ticker = x.row.ticker /\ y.row.date = x.row.date
    /\ \E x, y \in stockAnalytics : x.run # y.run
    /\ \E x, y \in marketIndicators : x.run # y.run
    /\ \E x, y \in breakoutStocks : x.run # y.run

\* The raw store as the run read it, with every ticker's full history.
FullPanel == LoadPanel(loadRaw.dates, loadRaw.ver, Tickers, 0)

\* The rows of ticker t the indicator engine derives from full histories, for the
\* dates from calcStart on.
FullHistoryRows(t, calcStart) ==
    { r \in CalculateIndicators(FullPanel, calcStart) : r.ticker = t }

\* C5 (dirty-ticker regeneration): after a completed run, for every ticker that was
\* in the log when the run started, the stock table holds a row for every date on
\* which the ticker's full raw history gives a defined 200-period mean and a finite
\* rs, the dates before recalc_from_date included.
C5_DirtyRegeneration ==
    Done =>
        \A t \in dirty : \A r \in FullHistoryRows(t, 0) :
            << t, r.date >> \in StockKeys(stockAnalytics)

\* C6 (dirty-ticker invalidation): after a completed run no stock row and no breakout
\* row that was stored before the run for a ticker of the log is still stored,
\* whatever its date.
C6_DirtyInvalidation ==
    Done =>
        /\ \A x \in stockAnalytics : x.row.ticker \in dirty => x \notin pre.stock
        /\ \A x \in breakoutStocks : x.row.ticker \in dirty => x \notin pre.breakout

\* A completed run found stock rows of a logged ticker older than data_load_date and
\* breakout rows of it older than recalc_from_date, and appended rows of the ticker.
C6_Witness ==
    /\ Done
    /\ \E t \in dirty :
          /\ \E x \in pre.stock : x.row.ticker = t /\ x.row.date < window.load
          /\ \E x \in pre.breakout : x.row.ticker = t /\ x.row.date < window.recalc
          /\ \E x \in stockAnalytics : x.row.ticker = t /\ x.run = runId

\* The columns of a stock row that C7 compares.
MaColumns(r) ==
    [ticker |-> r.ticker, date |-> r.date,
     ma_20 |-> r.ma_20, ma_50 |-> r.ma_50, ma_200 |-> r.ma_200]

\* C7 (incremental equals full): for every ticker outside the log and every date from
\* recalc_from_date on, a completed run has stored a row exactly when the indicator
\* engine run over the ticker's full raw history yields one, with the same ma_20,
\* ma_50 and ma_200.
C7_IncrementalEqualsFull ==
    Done =>
        \A t \in Tickers \ dirty :
            { MaColumns(x.row) : x \in { y \in stockAnalytics :
                                           y.run = runId /\ y.row.ticker = t } }
              = { MaColumns(r) : r \in FullHistoryRows(t, window.recalc) }

\* The bars of ticker t up to date d in the raw store the run read.
BarsUpTo(t, d) == { e \in loadRaw.dates[t] : e <= d }

TradingDaysUntil(m) == { d \in AllRawDates(loadRaw.dates) : d < m }

TradingDaysBefore(m, n) ==
    CHOOSE d \in TradingDaysUntil(m) :
        Cardinality({ e \in TradingDaysUntil(m) : e >= d }) = n

\* C9 (window resolver, warm case): when the run found stock analytics with maximum
\* date M, recalc_from_date is the date RecalcDays trading days before M,
\* data_load_date is BufferDays calendar days before that, and
\* data_load_date < recalc_from_date < M.
C9_WarmWindow ==
    (runId > 0 /\ pre.stock # {}) =>
        LET M == Max({ x.row.date : x \in pre.stock })
        IN Cardinality(TradingDaysUntil(M)) >= RecalcDays =>
           /\ window.ok
           /\ window.recalc = TradingDaysBefore(M, RecalcDays)
           /\ window.load = window.recalc - BufferDays
           /\ window.load < window.recalc /\ window.recalc < M

\* C10 (window resolver, cold case): when the run found no stock analytics and a
\* non-empty raw store, data_load_date and recalc_from_date are both the earliest raw
\* date, the run loads the entire raw history and recomputes from its first date.
C10_ColdWindow ==
    (runId > 0 /\ pre.stock = {} /\ AllRawDates(loadRaw.dates) # {}) =>
        /\ window.ok
        /\ window.load = Min(AllRawDates(loadRaw.dates))
        /\ window.recalc = window.load
        /\ pc = "loaded" =>
              /\ panel = FullPanel
              /\ MarketPanel(panel, window.recalc) = panel

\* A cold run has loaded a raw store that spans several dates.
C10_Witness ==
    /\ pc = "loaded"
    /\ pre.stock = {}
    /\ Cardinality(AllRawDates(loadRaw.dates)) > 1
    /\ \E t \in Stocks : Len(panel[t]) > 1

\* C11 (no raw data): a run that finds no stock analytics and an empty raw store ends
\* with the no-data outcome before any computation: it resolves no window, stays
\* out of the deletion and the appends, and leaves the derived tables and the log as
\* they were.
C11_NoRawData ==
    (runId > 0 /\ pre.stock = {} /\ AllRawDates(loadRaw.dates) = {}) =>
        /\ outcome.kind = "nodata"
        /\ ~window.ok
        /\ pc = "idle" /\ computed = NoFrames /\ panel = EmptyPanel
        /\ quiet => DerivedNow = pre

\* A run has just ended with the no-data outcome.
C11_Witness ==
    /\ outcome.kind = "nodata"
    /\ quiet
    /\ AllRawDates(rawDates) = {}
    /\ runId > 0

\* C12 (trend partition): every row the indicator engine emits has one of the three
\* trends, Uptrend exactly when adjusted_close > ma_50 > ma_200 and Downtrend exactly
\* when adjusted_close < ma_50 < ma_200, with ma_50 and ma_200 the rounded values the
\* row carries (adjusted_close in the same units of 1/10000).
C12_TrendPartition ==
    emitted.ready =>
        \A r \in emitted.out :
            LET adj == BarAt(sample, r.ticker, r.date).adj_close * 10000
            IN /\ r.trend \in {"Uptrend", "Downtrend", "Sideways"}
               /\ r.trend = "Uptrend" <=> (adj > r.ma_50 /\ r.ma_50 > r.ma_200)
               /\ r.trend = "Downtrend" <=> (adj < r.ma_50 /\ r.ma_50 < r.ma_200)

\* The stock rows of one date that belong to group g of type gt and carry a positive
\* market cap.
Constituents(rows, gt, g, d) ==
    { r \in rows : /\ r.date = d
                   /\ GroupNameOf(r.ticker, gt) = g
                   /\ StockMeta(r.ticker).market_cap > 0 }

\* C13 (weighted-mean bound): after a completed run every group row's group_rs_value
\* lies between the least and the greatest rs of the group's tickers with positive
\* market cap on that date.
C13_WeightedMeanBound ==
    Done =>
        \A g \in Rows(groupAnalytics) :
            LET cs == Constituents(Rows(stockAnalytics), g.group_type, g.group_name,
                                   g.analysis_date)
            IN /\ cs # {}
               /\ \E r \in cs : r.rs <= g.group_rs_value
               /\ \E r \in cs : r.rs >= g.group_rs_value

\* A group row lies strictly between the rs of two of its constituents.
C13_Witness ==
    /\ Done
    /\ \E g \in Rows(groupAnalytics) :
          \E r1, r2 \in Constituents(Rows(stockAnalytics), g.group_type, g.group_name,
                                     g.analysis_date) :
              r1.rs < g.group_rs_value /\ g.group_rs_value < r2.rs

\* C14 (group table is a function of the stock table): after a completed run the group
\* table holds exactly the aggregation of the stock table as it stands, and every
\* group row was appended by that run.
C14_GroupFromStock ==
    Done =>
        /\ Rows(groupAnalytics) = CalculateGroupAnalytics(Rows(stockAnalytics))
        /\ \A x \in groupAnalytics : x.run = runId

\* A completed run found group rows, kept stock rows of an earlier run and stored
\* group rows for dates of kept and of new stock rows.
C14_Witness ==
    /\ Done
    /\ pre.group # {}
    /\ \E x \in stockAnalytics, g \in groupAnalytics :
          x.run # runId /\ g.row.analysis_date = x.row.date
    /\ \E x \in stockAnalytics, g \in groupAnalytics :
          x.run = runId /\ g.row.analysis_date = x.row.date

\* C15 (frame of an incremental run): from the deletion of a run on, the stock rows
\* older than recalc_from_date of tickers outside the log, and the market rows older
\* than recalc_from_date, are the ones stored before the run.
C15_Frame ==
    (pc \notin {"idle", "loaded"} \/ Done) =>
        /\ { x \in stockAnalytics : x.row.ticker \notin dirty /\ x.row.date < window.recalc }
             = { x \in pre.stock : x.row.ticker \notin dirty /\ x.row.date < window.recalc }
        /\ { x \in marketIndicators : x.row.date < window.recalc }
             = { x \in pre.market : x.row.date < window.recalc }

\* A completed run with a ticker in the log kept older stock rows of another ticker
\* and older market rows, and deleted rows of its window.
C15_Witness ==
    /\ Done
    /\ dirty # {}
    /\ \E x \in pre.stock : x.row.ticker \notin dirty /\ x.row.date < window.recalc
    /\ \E x \in pre.market : x.row.date < window.recalc
    /\ \E x \in pre.stock : x.row.date >= window.recalc /\ x \notin stockAnalytics

AbcRows == { r \in emitted.out : r.ticker = "ABC" }

\* C16 (indicator engine on the flat history with a last-bar jump), as the code
\* computes it: exactly one ABC row is emitted, at the Period200-th bar, with ma_200
\* the mean of the Period200 closes, rs the last close over the benchmark level and
\* trend Uptrend, Downtrend or Sideways as the last close is above, below or at the
\* level; for level 100 and last close 110: ma_200 = 100.05, rs = 1.1, Uptrend.
C16_FlatThenJump ==
    emitted.ready =>
        /\ Cardinality(AbcRows) = 1
        /\ \A r \in AbcRows :
              /\ r.date = Period200
              /\ r.ma_200 = Round4(Rat((Period200 - 1) * sample.level + sample.last,
                                       Period200))
              /\ r.rs = Round4(Rat(sample.last, sample.level))
              /\ r.trend = IF sample.last > sample.level THEN "Uptrend"
                           ELSE IF sample.last < sample.level THEN "Downtrend"
                           ELSE "Sideways"
        /\ (sample.level = 100 /\ sample.last = 110) =>
              \A r \in AbcRows :
                  r.ma_200 = 1000500 /\ r.rs = 11000 /\ r.trend = "Uptrend"

\* The engine has returned for the history flat at 100 with the last close at 110.
C16_Witness ==
    /\ emitted.ready
    /\ sample = [level |-> 100, last |-> 110]
    /\ AbcRows # {}

\* C16 as stated: for level 100 and last close 110 exactly one ABC row is emitted, at
\* the 200th bar, with ma_200 = 100.05, rs = 1.0005 and trend Sideways.
C16_AsStated ==
    (emitted.ready /\ sample = [level |-> 100, last |-> 110]) =>
        /\ Cardinality(AbcRows) = 1
        /\ \A r \in AbcRows :
              /\ r.date = Period200
              /\ r.ma_200 = 1000500
              /\ r.rs = 10005
              /\ r.trend = "Sideways"

\* The market rows appended by the last run: one per date of the window handed to
\* calculate_market_breadth
RunMarketRows == { x.row : x \in { y \in marketIndicators : y.run = runId } }

NetAdvance(rows) ==
    [d \in { r.date : r \in rows } |->
        LET r == CHOOSE x \in rows : x.date = d IN r.advancers - r.decliners]

\* C17 (ad_line is cumulative within a detector call): on each date of the window
\* handed to the breadth detector, ad_line is the sum of advancers - decliners over
\* the window dates up to and including it; the cumulative sum of (30, 10) then
\* (5, 25) is 20 then 0.
C17_Cumulative ==
    /\ Done =>
          \A r \in RunMarketRows :
              r.ad_line = SumOver({ d \in DOMAIN NetAdvance(RunMarketRows) : d <= r.date },
                                  NetAdvance(RunMarketRows))
    /\ [k \in 1..2 |-> AdLine(<< 30, 5 >>, << 10, 25 >>, k)] = << 20, 0 >>

\* A run has appended a window in which a day with a net advance other than zero
\* follows an ad_line other than zero, as in (30, 10) then (5, 25).
C17_Witness ==
    /\ Done
    /\ \E r1, r2 \in RunMarketRows :
          /\ r1.date < r2.date
          /\ r1.ad_line # 0
          /\ r2.advancers # r2.decliners
          /\ r2.ad_line = r1.ad_line + r2.advancers - r2.decliners
          /\ \A r \in RunMarketRows : ~(r1.date < r.date /\ r.date < r2.date)

\* C18 (ad_line is seamless across runs): after successful runs, for every two
\* consecutive persisted market-indicator dates d1 < d2, ad_line(d2) - ad_line(d1) =
\* advancers(d2) - decliners(d2).
C18_SeamlessAdLine ==
    (Done /\ crashes = 0) =>
        \A r1, r2 \in Rows(marketIndicators) :
            (/\ r1.date < r2.date
             /\ \A r \in Rows(marketIndicators) : ~(r1.date < r.date /\ r.date < r2.date))
            => r2.ad_line - r1.ad_line = r2.advancers - r2.decliners

\* The trading date of the raw store immediately before date d (0: there is none)
PriorRawDate(d) ==
    LET before == { e \in AllRawDates(loadRaw.dates) : e < d }
    IN IF before = {} THEN 0 ELSE Max(before)

\* The non-benchmark tickers with bars on d and e whose adjusted close on d is above,
\* or below, that on e
Risers(d, e) ==
    { t \in Tickers \ {Benchmark} :
        /\ e # 0 /\ HasBar(FullPanel, t, d) /\ HasBar(FullPanel, t, e)
        /\ BarAt(FullPanel, t, d).adj_close > BarAt(FullPanel, t, e).adj_close }

Fallers(d, e) ==
    { t \in Tickers \ {Benchmark} :
        /\ e # 0 /\ HasBar(FullPanel, t, d) /\ HasBar(FullPanel, t, e)
        /\ BarAt(FullPanel, t, d).adj_close < BarAt(FullPanel, t, e).adj_close }

\* C19 (advancers and decliners are measured against the prior trading date): every
\* market-indicator row persisted by a run, the one of the first date of the
\* recomputed window included, counts the non-benchmark tickers whose adjusted_close
\* is higher (lower) than on the immediately preceding trading date of the raw store.
C19_PriorTradingDate ==
    (Done /\ crashes = 0) =>
        \A r \in RunMarketRows :
            /\ r.advancers = Cardinality(Risers(r.date, PriorRawDate(r.date)))
            /\ r.decliners = Cardinality(Fallers(r.date, PriorRawDate(r.date)))

\* The closes of the n bars of ticker t before its bar i, and the volumes of its n
\* bars up to bar i, in the panel handed to the detector
ClosesBefore(t, i, n) == { sample[t][j].close : j \in { x \in 1..(i - 1) : x >= i - n } }

VolumeSum(t, i, n) ==
    SumOver({ x \in 1..i : x > i - n }, [j \in 1..Len(sample[t]) |-> sample[t][j].volume])

\* C20 (breakout rule): a (ticker, date) bar is reported as a breakout exactly when
\* the ticker has at least VolMaPeriod bars in the panel up to that date, its close is
\* at least the maximum of that ticker's RollingHighPeriod closes before the bar, and
\* its volume is more than 1.5 times the mean of its last VolMaPeriod volumes.
C20_BreakoutRule ==
    emitted.ready =>
        \A t \in Tickers : \A i \in 1..Len(sample[t]) :
            ([date |-> sample[t][i].date, ticker |-> t] \in emitted.out)
            <=> /\ i >= VolMaPeriod
                /\ \A c \in ClosesBefore(t, i, RollingHighPeriod) : sample[t][i].close >= c
                /\ 2 * VolMaPeriod * sample[t][i].volume > 3 * VolumeSum(t, i, VolMaPeriod)

\* The detector has reported a bar whose close equals the maximum of the closes
\* before it, and has not reported a later bar of high volume below that maximum.
C20_Witness ==
    /\ emitted.ready
    /\ \E i, j \in 1..Len(sample["A"]) :
          /\ i < j
          /\ [date |-> sample["A"][i].date, ticker |-> "A"] \in emitted.out
          /\ sample["A"][i].close = 5
          /\ [date |-> sample["A"][j].date, ticker |-> "A"] \notin emitted.out
          /\ sample["A"][j].volume = 4
          /\ sample["A"][j].close = 5

\* C21 (per-ticker isolation): the stock-analytics rows and the breakout-stock rows
\* produced for ticker B are the same in two panels that differ only in the bars of
\* ticker A, the ticker sorted immediately before B.
C21_Isolation ==
    emitted.ready => emitted.out.one = emitted.out.two

\* Both detectors have returned rows for B from two panels whose bars of A differ: in
\* one A is absent, in the other A ends below B's first close.
C21_Witness ==
    /\ emitted.ready
    /\ sample.one = "none" /\ sample.two = "low"
    /\ emitted.out.one.stock # {}
    /\ emitted.out.one.breakout # {}

\* C22 (invalid relative strength drops the row): every emitted row is of a date on
\* which the benchmark has a bar with hlcc4 other than zero and the ticker's own
\* hlcc4 is defined, and carries that hlcc4 and rs = hlcc4 / benchmark hlcc4, rounded
\* to 4 decimals; no row is emitted for any other (ticker, date).
C22_InvalidRsDropped ==
    emitted.ready =>
        \A r \in emitted.out :
            /\ HasBar(sample, r.ticker, r.date)
            /\ HasBar(sample, Benchmark, r.date)
            /\ LET own == BarAt(sample, r.ticker, r.date)
                   spx == BarAt(sample, Benchmark, r.date)
               IN /\ Null \notin {own.high, own.low, own.adj_close}
                  /\ ~IsNaN(Hlcc4(spx)) /\ Hlcc4(spx).n # 0
                  /\ r.hlcc4 = Round4(Hlcc4(own))
                  /\ r.rs = Round4(RDiv(Hlcc4(own), Hlcc4(spx)))

\* The engine has emitted a row of A and none for a date without a benchmark bar, for
\* a date with a benchmark bar of zero prices, both with A's long mean defined.
C22_Witness ==
    /\ emitted.ready
    /\ \E d1, d2, d3 \in W200..GapDays :
          /\ \E r \in emitted.out : r.ticker = "A" /\ r.date = d1
          /\ ~HasBar(sample, Benchmark, d2)
          /\ HasBar(sample, Benchmark, d3) /\ BarAt(sample, Benchmark, d3).high = 0
          /\ \A i \in 1..GapDays : sample["A"][i].adj_close # Null
          /\ \A r \in emitted.out : r.date \notin {d2, d3}

\* C23 (output truncation): every row the indicator engine returns to a run, and
\* every row the run writes, has date >= recompute_from_date, for every ticker of the
\* panel, dirty tickers and the benchmark included.
C23_Truncation ==
    /\ pc \in {"computed", "stock_appended"} =>
          \A r \in computed.stock : r.date >= window.recalc
    /\ (runId > 0 /\ window.ok) =>
          \A x \in stockAnalytics : x.run = runId => x.row.date >= window.recalc

\* A run with a dirty ticker has appended rows of it and of the benchmark, and the
\* panel held bars of both before recompute_from_date with the long mean defined.
C23_Witness ==
    /\ pc = "stock_appended"
    /\ \E t \in dirty :
          /\ \E r \in computed.stock : r.ticker = t
          /\ \E r \in CalculateIndicators(panel, 0) : r.ticker = t /\ r.date < window.recalc
    /\ \E r \in computed.stock : r.ticker = Benchmark
    /\ \E r \in CalculateIndicators(panel, 0) : r.ticker = Benchmark /\ r.date < window.recalc

\* The first adjusted close of ticker t in the calendar year of date d in the raw
\* store
YearFirstAdjClose(t, d) ==
    Bar(t, Min({ e \in YearsStore(sample.gaps)[t] : YearOf(e) = YearOf(d) }), 0).adj_close

\* C24 (year-to-date baseline): for every row of the run, perf_ytd is the percentage
\* change of adjusted_close relative to the ticker's first adjusted_close of the
\* row's calendar year in the raw store.
C24_YtdBaseline ==
    emitted.ready =>
        \A r \in emitted.out :
            r.perf_ytd = Round4(Rat((Bar(r.ticker, r.date, 0).adj_close
                                        - YearFirstAdjClose(r.ticker, r.date)) * 100,
                                    YearFirstAdjClose(r.ticker, r.date)))

\* C25 (order independence of the indicator engine): for any permutation of the
\* rows of a panel the engine returns the same set of rows with the same values as for
\* the rows in ascending date order.
C25_OrderIndependence ==
    emitted.ready => emitted.out.given = emitted.out.sorted

\* C26 (macro columns are forward-filled): for every market-indicator row and every
\* macro series, the value stored is the most recent observation of the series dated
\* at or before the row's date; a later observation is never attached.
C26_ForwardFill ==
    emitted.ready =>
        \A r \in emitted.out : \A sid \in MacroSeries :
            LET seen == { d \in sample.obs[sid] : d <= r.date }
            IN r.macro[sid] = IF seen = {} THEN Null ELSE MacroValue(sid, Max(seen))

\* The tickers whose sector or industry is 'Unknown'
UnknownTickers == { t \in Tickers : \E gt \in GroupTypes : GroupNameOf(t, gt) = "Unknown" }

C28_DirtyNeverLost ==
    [][\A t \in refreshedLog \ refreshedLog' :
           /\ t \in dirty
           /\ \A x \in stockAnalytics' : x.row.ticker # t]_vars

\* C29 (breakout count matches breakout detail): after every successful run, for
\* every date that has a market-indicator row, high_volume_breakout_count is the
\* number of breakout-stock rows persisted for that date.
C29_CountMatchesDetail ==
    (Done /\ crashes = 0) =>
        \A mrow \in Rows(marketIndicators) :
            mrow.high_volume_breakout_count =
                Cardinality({ x \in breakoutStocks : x.row.date = mrow.date })

\* The run before the current one was incremental, appended stock rows of raw bars
\* newer than the analytics it started from, and failed before its market rows.
CrashBetweenAppends ==
    /\ prev.outcome.kind = "crashed" /\ prev.outcome.at = "stock_appended"
    /\ prev.window.ok /\ prev.window.load < prev.window.recalc
    /\ \E x \in pre.stock : x.run = runId - 1 /\ x.row.date > prev.window.recalc + RecalcDays

\* C30 (recovery from a crash between appends): when a run that processed newly
\* arrived raw bars failed after appending its stock rows and before appending its
\* market rows, the next complete run does not start later than the failed run's
\* recompute_from_date and leaves a market-indicator row for every raw trading date at
\* or after it.
C30_RecoveryBetweenAppends ==
    (Done /\ CrashBetweenAppends) =>
        /\ window.recalc <= prev.window.recalc
        /\ \A d \in AllRawDates(loadRaw.dates) :
               d >= prev.window.recalc => \E x \in marketIndicators : x.row.date = d

=============================================================================
